---- MODULE Spec2Model ----
(***************************************************************************)
(* Model of the PCA / clustering explorer                                  *)
(* (src/high_dimensional_analysis/pca_clustering_visual_analytics.py):     *)
(* the enriched table, the three module globals that form the selection    *)
(* state, the data source of the scatter plot, the two plots held by the   *)
(* layout, and the three callbacks that react to widget and lasso events   *)
(* (Spec); its clustering step on its own (SpecCluster); and the company   *)
(* map (src/geospatial_visualization/interactive_company_map.py) with its  *)
(* tap, slider, button and periodic callbacks (SpecMap).                   *)
(***************************************************************************)
EXTENDS Integers, Sequences, FiniteSets, TLC

VARIABLES
    df,               \* the enriched table (module global df)
    pca_ft_selected,  \* feature that colors the scatter plot
    sub_ft_selected,  \* feature shown in the subplot
    points_selected,  \* row indices selected with the lasso tool
    p_pca_source,     \* ColumnDataSource of the scatter plot
    layout,           \* the two plots held by the layout
    lasso_listener,   \* the data source whose selection calls lasso_update
    pipeline_runs,    \* how many times pca / clustering have run
    steps,            \* number of events handled so far
    event,            \* the callback that ran last, with its argument
    err,              \* exception raised by that callback, or "none"
    \* clustering() called on a projection
    cl_df,            \* the table clustering() is called with
    np_random,        \* state of numpy's global random generator
    cl_first,         \* per n_clusters, the labels of its first run
    cl_event,         \* the call that ran last, with its argument
    cl_err,           \* exception raised by that call, or "none"
    \* the company map (src/geospatial_visualization/interactive_company_map.py)
    year,             \* module global year
    city,             \* module global city
    market_cap_lower, \* module global market_cap_lower
    main_source,      \* data of the module's main_source
    sub_source,       \* data of the module's sub_source
    subplot,          \* the detail plot: its title and its glyphs' data
    slider,           \* the slider's end and value
    btn,              \* the button's label
    callback,         \* module global callback
    periodic,         \* periodic callbacks registered with the document
    selected,         \* selected indices of the main plot's data source
    map_event,        \* the handler that ran last, with its argument
    tick_years,       \* the years the latest ticks moved to, oldest first
    map_err           \* exception raised by that handler, or "none"

pcaVars == <<df, pca_ft_selected, sub_ft_selected, points_selected,
             p_pca_source, layout, lasso_listener, pipeline_runs, steps,
             event, err>>

clusterVars == <<cl_df, np_random, cl_first, cl_event, cl_err>>

mapVars == <<year, city, market_cap_lower, main_source, sub_source, subplot,
             slider, btn, callback, periodic, selected, map_event, tick_years,
             map_err>>

vars == <<pcaVars, clusterVars, mapVars>>

(***************************************************************************)
(* Bounds                                                                  *)
(***************************************************************************)
\* number of events a behaviour handles
MaxEvents == 2

(***************************************************************************)
(* Cells, columns and tables                                               *)
(***************************************************************************)
\* a text cell, a numeric cell and a missing numeric cell
S(s) == [kind |-> "str", s |-> s, n |-> 0]
N(n) == [kind |-> "num", s |-> "", n |-> n]
NaN == [kind |-> "nan", s |-> "", n |-> 0]

Strs(q) == [i \in 1..Len(q) |-> S(q[i])]
Nums(q) == [i \in 1..Len(q) |-> N(q[i])]

SeqRange(q) == {q[i] : i \in 1..Len(q)}

RECURSIVE SeqSum(_)
SeqSum(q) == IF q = <<>> THEN 0 ELSE q[1] + SeqSum(Tail(q))

\* lexicographic order of the text values that occur in the tables
StrOrder == <<"0", "1", "AAPL", "ADBE", "CSCO", "Hardware", "IBM", "MSFT",
              "Market Cap", "Services", "Software">>

StrRank(s) == CHOOSE i \in 1..Len(StrOrder) : StrOrder[i] = s

\* columns of the loaded table after pca() and clustering()
PipelineColumns == <<"Symbol", "Sector", "Market Cap", "Mean Recommendation",
                     "PCA 1", "PCA 2", "Cluster">>

MkTable(sym, sector, mcap, rec, p1, p2, clu) ==
    [columns |-> PipelineColumns,
     dtype |-> [c \in SeqRange(PipelineColumns) |->
                  IF c \in {"Symbol", "Sector", "Cluster"} THEN "object"
                  ELSE "number"],
     data |-> [c \in SeqRange(PipelineColumns) |->
                  CASE c = "Symbol" -> Strs(sym)
                    [] c = "Sector" -> Strs(sector)
                    [] c = "Market Cap" -> mcap
                    [] c = "Mean Recommendation" -> rec
                    [] c = "PCA 1" -> Nums(p1)
                    [] c = "PCA 2" -> Nums(p2)
                    [] c = "Cluster" -> Strs(clu)]]

\* two sectors, no missing value, the rarer cluster label sorts first
TableA ==
    MkTable(<<"AAPL", "ADBE", "CSCO">>,
            <<"Software", "Software", "Hardware">>,
            Nums(<<10, 200, 35>>),
            Nums(<<1, 3, 3>>),
            <<-3, 1, 2>>, <<1, -1, 0>>,
            <<"1", "1", "0">>)

\* three sectors, a missing market cap, no negative first component
TableB ==
    MkTable(<<"CSCO", "IBM", "MSFT">>,
            <<"Hardware", "Services", "Software">>,
            <<N(5), NaN, N(80)>>,
            Nums(<<1, 4, 5>>),
            <<0, 3, 7>>, <<-2, 2, 0>>,
            <<"0", "1", "1">>)

\* a constant recommendation column and a missing market cap
TableC ==
    MkTable(<<"ADBE", "IBM", "MSFT">>,
            <<"Software", "Services", "Software">>,
            <<NaN, N(7), N(3)>>,
            Nums(<<2, 2, 2>>),
            <<4, 0, 9>>, <<1, 1, 5>>,
            <<"0", "0", "1">>)

Tables == {TableA, TableB, TableC}

NumRows(t) == Len(t.data[t.columns[1]])

HasColumn(t, c) == c \in DOMAIN t.data

\* df[name] = value: every row of the (new or existing) column gets the value
SetColumnConst(t, name, cell) ==
    [columns |-> IF name \in SeqRange(t.columns) THEN t.columns
                 ELSE Append(t.columns, name),
     dtype |-> [c \in DOMAIN t.dtype \cup {name} |->
                  IF c = name THEN "object" ELSE t.dtype[c]],
     data |-> [c \in DOMAIN t.data \cup {name} |->
                  IF c = name THEN [i \in 1..NumRows(t) |-> cell]
                  ELSE t.data[c]]]

is_object_dtype(t, c) == t.dtype[c] = "object"
is_numeric_dtype(t, c) == t.dtype[c] = "number"

(***************************************************************************)
(* create_cmap: the color map of a feature                                 *)
(***************************************************************************)
\* a str is a sequence of characters; a palette is either a list of color
\* strs or (when a single color is taken for it) one str
Black == <<"#", "0", "0", "0", "0", "0", "0">>
White == <<"#", "F", "F", "F", "F", "F", "F">>

\* bokeh.palettes.Turbo256 is a tuple of 256 colors; its first entries
Turbo256 ==
    << <<"#", "3", "0", "1", "2", "3", "b">>,
       <<"#", "3", "1", "1", "5", "4", "2">>,
       <<"#", "3", "2", "1", "8", "4", "a">>,
       <<"#", "3", "4", "1", "b", "5", "1">>,
       <<"#", "3", "5", "1", "e", "5", "8">>,
       <<"#", "3", "6", "2", "1", "5", "f">>,
       <<"#", "3", "7", "2", "3", "6", "5">> >>

ListPalette(colors) == [kind |-> "list", items |-> colors]
\* iterating a str yields its characters, each a str of length one
StrPalette(color) ==
    [kind |-> "str", items |-> [i \in 1..Len(color) |-> <<color[i]>>]]

RECURSIVE SortStr(_)
SortStr(set) ==
    IF set = {} THEN <<>>
    ELSE LET m == CHOOSE x \in set : \A y \in set : StrRank(x) <= StrRank(y)
         IN  <<m>> \o SortStr(set \ {m})

\* np.unique(df[col].astype(str)): the distinct values, sorted
Unique(cells) == SortStr({cells[i].s : i \in 1..Len(cells)})

\* x < m as Python compares floats: false whenever either side is NaN
PyLess(x, m) == x.kind = "num" /\ m.kind = "num" /\ x.n < m.n

\* the builtin min / max: keep the first item unless a later one compares
\* smaller / larger
RECURSIVE PyMinFrom(_, _)
PyMinFrom(m, rest) ==
    IF rest = <<>> THEN m
    ELSE PyMinFrom(IF PyLess(rest[1], m) THEN rest[1] ELSE m, Tail(rest))

RECURSIVE PyMaxFrom(_, _)
PyMaxFrom(m, rest) ==
    IF rest = <<>> THEN m
    ELSE PyMaxFrom(IF PyLess(m, rest[1]) THEN rest[1] ELSE m, Tail(rest))

PyMin(cells) == PyMinFrom(cells[1], Tail(cells))
PyMax(cells) == PyMaxFrom(cells[1], Tail(cells))

\* min(df[col]) >= 0
NonNegative(cell) == cell.kind = "num" /\ cell.n >= 0

\* factor_cmap builds a CategoricalColorMapper, whose palette must be a
\* sequence of colors: a bare str is rejected
factor_cmap(field, palette, factors) ==
    IF palette.kind # "list"
    THEN [err |-> "ValueError", type |-> "none", field |-> field,
          palette |-> <<>>, factors |-> <<>>, low |-> NaN, high |-> NaN]
    ELSE [err |-> "none", type |-> "factor", field |-> field,
          palette |-> palette.items, factors |-> factors,
          low |-> NaN, high |-> NaN]

continuous_cmap(type, field, low, high) ==
    [err |-> "none", type |-> type, field |-> field,
     palette |-> <<>>, factors |-> <<>>, low |-> low, high |-> high]

\* the color a CategoricalColorMapper gives to a value: the palette entry at
\* the position of the value among the factors
MapperColor(mapper, v) ==
    LET pos == {i \in 1..Len(mapper.factors) : mapper.factors[i] = v}
    IN  IF pos = {} \/ (CHOOSE i \in pos : TRUE) > Len(mapper.palette)
        THEN <<"g", "r", "a", "y">>
        ELSE mapper.palette[CHOOSE i \in pos : TRUE]

\* dict(zip(l, palette)): pairs up to the shorter of the two
ZipDict(l, items) ==
    LET n == IF Len(l) < Len(items) THEN Len(l) ELSE Len(items)
    IN  [c \in {l[i] : i \in 1..n} |->
            items[CHOOSE i \in 1..n : l[i] = c]]

create_cmap(t, col) ==
    IF is_object_dtype(t, col)
    THEN LET l == Unique(t.data[col])
             palette == IF Len(l) = 2 THEN ListPalette(<<Black, White>>)
                        ELSE StrPalette(Turbo256[Len(l) + 1])
             mapper == factor_cmap(col, palette, l)
         IN  IF mapper.err # "none"
             THEN [err |-> mapper.err, mapper |-> mapper,
                   cat_palette |-> [is_none |-> TRUE, d |-> <<>>]]
             ELSE [err |-> "none", mapper |-> mapper,
                   cat_palette |-> [is_none |-> FALSE,
                                    d |-> ZipDict(l, palette.items)]]
    ELSE LET low == PyMin(t.data[col])
             high == PyMax(t.data[col])
         IN  [err |-> "none",
              mapper |-> IF NonNegative(low)
                         THEN continuous_cmap("log", col, low, high)
                         ELSE continuous_cmap("linear", col, low, high),
              cat_palette |-> [is_none |-> TRUE, d |-> <<>>]]

(***************************************************************************)
(* plot_pca: the scatter plot of the two principal components              *)
(***************************************************************************)
NoFigure == [kind |-> "none"]

plot_pca(source, t, ft_selected) ==
    LET cm == create_cmap(t, ft_selected)
    IN  IF cm.err # "none" THEN [err |-> cm.err, fig |-> NoFigure]
        ELSE [err |-> "none",
              fig |-> [kind |-> "scatter",
                       title |-> ft_selected,
                       x |-> "PCA 1", y |-> "PCA 2",
                       fill_color |-> cm.mapper,
                       legend_field |-> "label",
                       source |-> source,
                       color_bar |->
                          IF is_numeric_dtype(t, ft_selected)
                          THEN [shown |-> TRUE, type |-> "linear",
                                low |-> PyMin(t.data[ft_selected]),
                                high |-> PyMax(t.data[ft_selected])]
                          ELSE [shown |-> FALSE, type |-> "none",
                                low |-> NaN, high |-> NaN],
                       legend |-> IF is_numeric_dtype(t, ft_selected)
                                  THEN "empty" ELSE "left"]]

(***************************************************************************)
(* draw_hist: histogram of a numeric feature, all rows against selected    *)
(***************************************************************************)
\* number of bins of the histogram
NumBins == 50

\* df.iloc[points_selected]: the rows at the given 0-based positions, in the
\* given order
Iloc(cells, points) == [k \in 1..Len(points) |-> cells[points[k] + 1]]

HasNaN(cells) == \E i \in 1..Len(cells) : cells[i].kind = "nan"

\* Bin edges are kept as integers, in hundredths.  np.histogram(a, bins=50)
\* takes the range [min, max] of a, widened by 0.5 on both sides when min
\* equals max, and np.linspace cuts it into equal bins.
FirstEdge(cells) ==
    LET lo == PyMin(cells).n
        hi == PyMax(cells).n
    IN  IF lo = hi THEN 100 * lo - 50 ELSE 100 * lo

LastEdge(cells) ==
    LET lo == PyMin(cells).n
        hi == PyMax(cells).n
    IN  IF lo = hi THEN 100 * hi + 50 ELSE 100 * hi

Edge(first, last, i) == first + (i * (last - first)) \div NumBins

\* the bin index np.histogram computes for a value when the bins are given
\* as a count: the scaled offset, truncated, the last edge put in the last
\* bin
UniformBinIndex(first, last, v) ==
    LET f == (NumBins * (100 * v - first)) \div (last - first)
    IN  IF f = NumBins THEN f - 1 ELSE f

\* np.histogram(df[col], bins=50): counts per bin
HistAll(cells, first, last) ==
    LET idx == [i \in 1..Len(cells) |-> UniformBinIndex(first, last, cells[i].n)]
    IN  [b \in 1..NumBins |->
            Cardinality({i \in 1..Len(cells) : idx[i] = b - 1})]

\* np.histogram(a, bins=edges): cumulative counts by searching the sorted
\* values for every edge (left of equal values, but right of them for the
\* last edge), then differences
\* CumCount with a fault: every edge searched to the right of equal values
CumCountRight(cells, edges, i) ==
    Cardinality({k \in 1..Len(cells) : 100 * cells[k].n <= edges[i]})

CumCount(cells, edges, i) ==
    IF i < NumBins
    THEN Cardinality({k \in 1..Len(cells) : 100 * cells[k].n < edges[i]})
    ELSE Cardinality({k \in 1..Len(cells) : 100 * cells[k].n <= edges[i]})

\* HistEdges with a fault: the selected values binned over their own range
HistOwnRange(cells, edges) ==
    IF cells = <<>> THEN [b \in 1..NumBins |-> 0]
    ELSE HistAll(cells, FirstEdge(cells), LastEdge(cells))

HistEdges(cells, edges) ==
    LET cum_n == [i \in 0..NumBins |-> CumCount(cells, edges, i)]
    IN  [b \in 1..NumBins |-> cum_n[b] - cum_n[b - 1]]

draw_hist(t, col, points) ==
    LET s == Iloc(t.data[col], points)
    IN  IF HasNaN(t.data[col])
        THEN [err |-> "ValueError", fig |-> NoFigure]
        ELSE LET first == FirstEdge(t.data[col])
                 last == LastEdge(t.data[col])
                 edges == [i \in 0..NumBins |-> Edge(first, last, i)]
                 top == HistAll(t.data[col], first, last)
                 top_s == HistEdges(s, edges)
             IN  [err |-> "none",
                  fig |-> [kind |-> "hist",
                           title |-> col,
                           rows |-> points,
                           left |-> [b \in 1..NumBins |-> edges[b - 1]],
                           right |-> [b \in 1..NumBins |-> edges[b]],
                           all |-> top,
                           selected |-> top_s]]

(***************************************************************************)
(* draw_bar_chart: bar chart of a categorical feature                      *)
(***************************************************************************)
\* Series.value_counts(): the distinct values with their counts, the most
\* frequent first (equal counts in order of first appearance)
CountOf(cells, v) == Cardinality({i \in 1..Len(cells) : cells[i].s = v})

FirstPos(cells, v) == CHOOSE i \in 1..Len(cells) :
                         cells[i].s = v /\ \A j \in 1..(i - 1) : cells[j].s # v

RECURSIVE SortCounts(_, _)
SortCounts(cells, set) ==
    IF set = {} THEN <<>>
    ELSE LET m == CHOOSE x \in set : \A y \in set :
                     \/ CountOf(cells, x) > CountOf(cells, y)
                     \/ /\ CountOf(cells, x) = CountOf(cells, y)
                        /\ FirstPos(cells, x) <= FirstPos(cells, y)
         IN  <<m>> \o SortCounts(cells, set \ {m})

value_counts(cells) ==
    LET index == SortCounts(cells, {cells[i].s : i \in 1..Len(cells)})
    IN  [index |-> index,
         values |-> [k \in 1..Len(index) |-> CountOf(cells, index[k])]]

\* DataFrame.value_counts() of the selected rows counts whole rows (those
\* without a missing value); its index has one level per column, and a
\* plain key is looked up in the first level, the first column of the table
RowHasNaN(t, r) == \E c \in DOMAIN t.data : t.data[c][r].kind = "nan"

InRowCountsIndex(t, points, c) ==
    \E k \in 1..Len(points) :
        /\ ~RowHasNaN(t, points[k] + 1)
        /\ t.data[t.columns[1]][points[k] + 1].kind = "str"
        /\ t.data[t.columns[1]][points[k] + 1].s = c

\* CatColors with a fault: the palette's colors in palette order
CatColorsInPaletteOrder(cat, cat_palette) ==
    LET keys == SortStr(DOMAIN cat_palette)
    IN  [k \in 1..Len(cat) |-> cat_palette[keys[k]]]

\* [cat_palette[c] for c in cat]
CatColors(cat, cat_palette) == [k \in 1..Len(cat) |-> cat_palette[cat[k]]]

draw_bar_chart(t, col, points) ==
    LET dis == value_counts(t.data[col])
        cat == dis.index
        count == dis.values
        \* a key found in the first level yields the matching part of the
        \* row counts, not a number
        found == {k \in 1..Len(cat) : InRowCountsIndex(t, points, cat[k])}
        count_s == [k \in 1..Len(cat) |-> 0]
        cm == create_cmap(t, col)
    IN  IF cm.err # "none" THEN [err |-> cm.err, fig |-> NoFigure]
        ELSE IF found # {} THEN [err |-> "ValueError", fig |-> NoFigure]
        ELSE LET cat_color == CatColors(cat, cm.cat_palette.d)
             IN  [err |-> "none",
                  fig |-> [kind |-> "bar",
                           title |-> col,
                           rows |-> points,
                           x |-> cat \o cat,
                           counts |-> count \o count_s,
                           color |-> cat_color \o cat_color,
                           label |-> [k \in 1..Len(cat) |-> "all"]
                                       \o [k \in 1..Len(cat) |-> "selected"]]]

draw_subplot(t, ft_selected, points) ==
    IF ~HasColumn(t, ft_selected) THEN [err |-> "KeyError", fig |-> NoFigure]
    ELSE IF is_numeric_dtype(t, ft_selected)
         THEN draw_hist(t, ft_selected, points)
         ELSE draw_bar_chart(t, ft_selected, points)

(***************************************************************************)
(* clustering(): mini-batch k-means on the two principal components        *)
(***************************************************************************)
\* a table that holds the projection only
ProjTable(p1, p2) ==
    [columns |-> <<"PCA 1", "PCA 2">>,
     dtype |-> [c \in {"PCA 1", "PCA 2"} |-> "number"],
     data |-> [c \in {"PCA 1", "PCA 2"} |->
                  IF c = "PCA 1" THEN Nums(p1) ELSE Nums(p2)]]

\* the corners of a rectangle (two ways to split them in two), four points
\* on a line, and the projection of TableA
Projections ==
    {ProjTable(<<0, 0, 4, 4>>, <<0, 3, 0, 3>>),
     ProjTable(<<0, 1, 5, 6>>, <<0, 0, 0, 0>>),
     ProjTable(<<-3, 1, 2>>, <<1, -1, 0>>)}

\* df[name] = values
SetColumn(t, name, dtype, cells) ==
    [columns |-> IF name \in SeqRange(t.columns) THEN t.columns
                 ELSE Append(t.columns, name),
     dtype |-> [c \in DOMAIN t.dtype \cup {name} |->
                  IF c = name THEN dtype ELSE t.dtype[c]],
     data |-> [c \in DOMAIN t.data \cup {name} |->
                  IF c = name THEN cells ELSE t.data[c]]]

\* X = df[["PCA 1", "PCA 2"]]
ProjectionOf(t) ==
    [i \in 1..NumRows(t) |-> <<t.data["PCA 1"][i].n, t.data["PCA 2"][i].n>>]

\* numpy's global generator: a state, np.random.seed, and one draw, which
\* steps the state and yields a row position below n
RandomStates == 0..7

seed(x) == x % 8

RandomStep(s) == (5 * s + 3) % 8

RandomRow(s, n) == (s \div 2) % n

\* squared distance of two points
Dist2(p, q) == (p[1] - q[1]) * (p[1] - q[1]) + (p[2] - q[2]) * (p[2] - q[2])

\* initial centres: k distinct rows, picked from the drawn position on
InitCentres(X, k, d) == [j \in 1..k |-> X[((d + j - 1) % Len(X)) + 1]]

\* index (from 0) of the nearest centre, the first one among equals
Nearest(p, centres) ==
    (CHOOSE j \in 1..Len(centres) :
        \A m \in 1..Len(centres) :
            \/ Dist2(p, centres[j]) < Dist2(p, centres[m])
            \/ Dist2(p, centres[j]) = Dist2(p, centres[m]) /\ j <= m) - 1

PredictLabels(X, centres) == [i \in 1..Len(X) |-> Nearest(X[i], centres)]

Inertia(X, centres) ==
    SeqSum([i \in 1..Len(X) |-> Dist2(X[i], centres[Nearest(X[i], centres) + 1])])

\* MiniBatchKMeans(n_clusters, n_init=2).fit(X) followed by predict(X): an
\* n_clusters outside 1..len(X) is rejected; otherwise two initialisations
\* are drawn from the global generator and the one of lower inertia is kept
fit_predict(X, n_clusters, s) ==
    IF n_clusters < 1 \/ n_clusters > Len(X)
    THEN [err |-> "ValueError", labels |-> <<>>, random |-> s]
    ELSE LET s1 == RandomStep(s)
             s2 == RandomStep(s1)
             c1 == InitCentres(X, n_clusters, RandomRow(s1, Len(X)))
             c2 == InitCentres(X, n_clusters, RandomRow(s2, Len(X)))
             best == IF Inertia(X, c2) < Inertia(X, c1) THEN c2 ELSE c1
         IN  [err |-> "none", labels |-> PredictLabels(X, best), random |-> s2]

\* y_pred.astype(str)
LabelStr(i) == <<"0", "1", "2", "3">>[i + 1]

astype_str(labels) == [i \in 1..Len(labels) |-> S(LabelStr(labels[i]))]

\* values n_clusters is called with: below the range, in it, at its end and
\* above it
ClusterCounts(t) == {0, 1, 2, NumRows(t), NumRows(t) + 1}

NoLabels == <<>>

ClusterCall(n_clusters) ==
    [name |-> "clustering", n_clusters |-> n_clusters,
     random_before |-> np_random,
     repeat |-> n_clusters \in DOMAIN cl_first /\ cl_first[n_clusters] # NoLabels]

\* the labels of the first successful run with each n_clusters
RecordFirst(n_clusters, r) ==
    IF r.err = "none" /\ cl_first[n_clusters] = NoLabels
    THEN [cl_first EXCEPT ![n_clusters] = r.labels]
    ELSE cl_first

\* clustering with a fault: the generator is not seeded
clustering_unseeded(n_clusters) ==
    LET r == fit_predict(ProjectionOf(cl_df), n_clusters, np_random)
    IN  /\ cl_event' = ClusterCall(n_clusters)
        /\ np_random' = r.random
        /\ cl_err' = r.err
        /\ cl_first' = RecordFirst(n_clusters, r)
        /\ cl_df' = IF r.err = "none"
                    THEN SetColumn(cl_df, "Cluster", "object", astype_str(r.labels))
                    ELSE cl_df

\* clustering with a fault: the column is written before the model is fitted
clustering_column_first(n_clusters) ==
    LET r == fit_predict(ProjectionOf(cl_df), n_clusters, seed(0))
    IN  /\ cl_event' = ClusterCall(n_clusters)
        /\ np_random' = r.random
        /\ cl_err' = r.err
        /\ cl_first' = RecordFirst(n_clusters, r)
        /\ cl_df' = SetColumn(cl_df, "Cluster", "object",
                              IF r.err = "none" THEN astype_str(r.labels)
                              ELSE [i \in 1..NumRows(cl_df) |-> S("0")])

\* clustering(df, n_clusters): np.random.seed(0), fit, predict, and
\* df['Cluster'] = y_pred, which is not reached when fit raises
clustering(n_clusters) ==
    LET r == fit_predict(ProjectionOf(cl_df), n_clusters, seed(0))
    IN  /\ cl_event' = ClusterCall(n_clusters)
        /\ np_random' = r.random
        /\ cl_err' = r.err
        /\ cl_first' = RecordFirst(n_clusters, r)
        /\ cl_df' = IF r.err = "none"
                    THEN SetColumn(cl_df, "Cluster", "object", astype_str(r.labels))
                    ELSE cl_df

\* the explorer does not call clustering() after its startup
ClusterIdle ==
    /\ cl_df = ProjTable(<<>>, <<>>)
    /\ np_random = seed(0)
    /\ cl_first = <<>>
    /\ cl_event = [name |-> "none"]
    /\ cl_err = "none"

(***************************************************************************)
(* The company map: the raw table and create_df                            *)
(***************************************************************************)
FirstYear == 2018
LastYear == 2022

Years == FirstYear..LastYear

\* one row of us_company_map; the yearly columns are indexed by the year
Company(sym, cty, x, y, caps, emps) ==
    [Symbol |-> sym, City |-> cty, x |-> x, y |-> y,
     MarketCap |-> [yr \in Years |-> caps[yr - FirstYear + 1]],
     Employees |-> [yr \in Years |-> emps[yr - FirstYear + 1]]]

us_company_map ==
    <<Company("ADBE", "San Jose", 1, 1, <<100, 100, 200, 200, 200>>,
              <<10, 10, 20, 20, 30>>),
      Company("CSCO", "San Jose", 3, 1, <<200, 200, 100, 100, 100>>,
              <<70, 70, 70, 80, 80>>),
      Company("AMZN", "Seattle", 2, 5, <<0, 100, 100, 200, 300>>,
              <<50, 60, 60, 90, 90>>)>>

\* the cities of the raw table in sorted order, the order of groupby's keys
Cities == <<"San Jose", "Seattle">>

\* np.log1p of a cell, kept as a term
log1p(cell) == [log1p |-> cell]

\* the yearly columns picked and renamed, and Symbol, Market Cap and
\* Employees blanked where the market cap is below the bound
FilteredRow(r, yr, lower) ==
    IF r.MarketCap[yr] < lower
    THEN [Symbol |-> NaN, City |-> S(r.City), x |-> N(r.x), y |-> N(r.y),
          MarketCap |-> NaN, Employees |-> NaN]
    ELSE [Symbol |-> S(r.Symbol), City |-> S(r.City), x |-> N(r.x),
          y |-> N(r.y), MarketCap |-> N(r.MarketCap[yr]),
          Employees |-> N(r.Employees[yr])]

Filtered(yr, lower) ==
    [i \in 1..Len(us_company_map) |-> FilteredRow(us_company_map[i], yr, lower)]

\* sum of a column over the rows of a group, missing values skipped
RECURSIVE SumCells(_)
SumCells(cells) ==
    IF cells = <<>> THEN 0
    ELSE (IF cells[1].kind = "num" THEN cells[1].n ELSE 0) + SumCells(Tail(cells))

\* the rows of a city, in their order
RECURSIVE RowsOfCity(_, _)
RowsOfCity(rows, cty) ==
    IF rows = <<>> THEN <<>>
    ELSE (IF rows[1].City.s = cty THEN <<rows[1]>> ELSE <<>>)
         \o RowsOfCity(Tail(rows), cty)

ColumnOf(rows, c) == [i \in 1..Len(rows) |-> rows[i][c]]

\* groupby('City').agg(x mean, y mean, Symbol count, Market Cap sum,
\* Employees sum) for one city
CityRow(rows, cty) ==
    LET g == RowsOfCity(rows, cty)
        employees == N(SumCells(ColumnOf(g, "Employees")))
    IN  [City |-> S(cty),
         x |-> N(SumCells(ColumnOf(g, "x")) \div Len(g)),
         y |-> N(SumCells(ColumnOf(g, "y")) \div Len(g)),
         Symbol |-> N(Cardinality({i \in 1..Len(g) : g[i].Symbol.kind = "str"})),
         MarketCap |-> N(SumCells(ColumnOf(g, "MarketCap"))),
         Employees |-> employees,
         circle_size |-> log1p(employees)]

CompanyRow(r) ==
    [Symbol |-> r.Symbol, City |-> r.City, x |-> r.x, y |-> r.y,
     MarketCap |-> r.MarketCap, Employees |-> r.Employees,
     circle_size |-> log1p(r.Employees)]

create_df(yr, cty, lower, main) ==
    LET rows == Filtered(yr, lower)
        sub == RowsOfCity(rows, cty)
    IN  IF main
        THEN [j \in 1..Len(Cities) |-> CityRow(rows, Cities[j])]
        ELSE [i \in 1..Len(sub) |-> CompanyRow(sub[i])]

\* main_df['Market Cap'].max()
MaxMarketCap(rows) ==
    CHOOSE m \in {rows[i].MarketCap.n : i \in 1..Len(rows)} :
        \A i \in 1..Len(rows) : rows[i].MarketCap.n <= m

\* f"Companies in {city}"
SubplotTitle(cty) == <<"Companies in ", cty>>

\* the handlers' steps of the values a slider can take
SliderStep == 100

SliderValues == {v \in 0..slider.end : v % SliderStep = 0}

\* a periodic callback object that differs from every one still referred to
NewCallback == CHOOSE c \in 1..(Cardinality(periodic) + 2) :
                   c \notin periodic /\ c # callback /\
                   \A d \in 1..(c - 1) : d \in periodic \/ d = callback

None == 0

(***************************************************************************)
(* The company map: startup and the handlers                               *)
(***************************************************************************)
\* tap_update(attr, old, new): new is the list of selected indices, which
\* new['1d'] cannot index
tap_update(new) ==
    /\ new # selected
    /\ selected' = new
    /\ map_event' = [name |-> "tap_update", indices |-> new, value |-> 0]
    /\ map_err' = IF new # <<>> THEN "TypeError" ELSE "none"
    /\ UNCHANGED <<year, city, market_cap_lower, main_source, sub_source,
                   subplot, slider, btn, callback, periodic>>

\* slider_update(attr, old, new)
slider_update(new) ==
    /\ new # slider.value
    /\ slider' = [slider EXCEPT !.value = new]
    /\ market_cap_lower' = new
    /\ main_source' = create_df(year, city, new, TRUE)
    /\ sub_source' = create_df(year, city, new, FALSE)
    /\ map_event' = [name |-> "slider_update", indices |-> <<>>, value |-> new]
    /\ map_err' = "none"
    /\ UNCHANGED <<year, city, subplot, btn, callback, periodic, selected>>

\* update_year with a fault: the year is never set back to the first year
update_year_no_wrap ==
    /\ year' = year + 1
    /\ map_event' = [name |-> "update_year", indices |-> <<>>, value |-> 0]
    /\ map_err' = "NameError"
    /\ UNCHANGED <<city, market_cap_lower, main_source, sub_source, subplot,
                   slider, btn, callback, periodic, selected>>

\* update_year(): the year is stepped, then label.text = str(year) raises
\* NameError, the module binding no name 'label'; the statements after it
\* are not reached
update_year ==
    /\ year' = IF year >= LastYear THEN FirstYear ELSE year + 1
    /\ map_event' = [name |-> "update_year", indices |-> <<>>, value |-> 0]
    /\ map_err' = "NameError"
    /\ UNCHANGED <<city, market_cap_lower, main_source, sub_source, subplot,
                   slider, btn, callback, periodic, selected>>

\* play with a fault: a click while 'Pause' leaves the callback registered
play_keep_callback ==
    /\ map_event' = [name |-> "play", indices |-> <<>>, value |-> 0]
    /\ map_err' = "none"
    /\ IF btn.label = "Play"
       THEN /\ btn' = [btn EXCEPT !.label = "Pause"]
            /\ callback' = NewCallback
            /\ periodic' = periodic \cup {NewCallback}
       ELSE /\ btn' = [btn EXCEPT !.label = "Play"]
            /\ UNCHANGED <<callback, periodic>>
    /\ UNCHANGED <<year, city, market_cap_lower, main_source, sub_source,
                   subplot, slider, selected>>

\* play()
play ==
    /\ map_event' = [name |-> "play", indices |-> <<>>, value |-> 0]
    /\ map_err' = "none"
    /\ IF btn.label = "Play"
       THEN /\ btn' = [btn EXCEPT !.label = "Pause"]
            /\ callback' = NewCallback
            /\ periodic' = periodic \cup {NewCallback}
       ELSE /\ btn' = [btn EXCEPT !.label = "Play"]
            /\ periodic' = periodic \ {callback}
            /\ UNCHANGED callback
    /\ UNCHANGED <<year, city, market_cap_lower, main_source, sub_source,
                   subplot, slider, selected>>

\* the state the module leaves behind when it has run to its end
MapStartup ==
    /\ year = LastYear
    /\ city = "San Jose"
    /\ market_cap_lower = 0
    /\ main_source = create_df(year, city, market_cap_lower, TRUE)
    /\ sub_source = create_df(year, city, market_cap_lower, FALSE)
    \* plot_company(sub_df) draws from a ColumnDataSource of its own
    /\ subplot = [title |-> SubplotTitle(city),
                  source |-> create_df(year, city, market_cap_lower, FALSE)]
    /\ slider = [end |-> MaxMarketCap(main_source), value |-> market_cap_lower]
    /\ btn = [label |-> "Play"]
    /\ callback = None
    /\ periodic = {}
    /\ selected = <<>>
    /\ map_event = [name |-> "startup", indices |-> <<>>, value |-> 0]
    /\ tick_years = <<>>
    /\ map_err = "none"

\* the map's state while another program is looked at
MapIdle ==
    /\ year = LastYear
    /\ city = "San Jose"
    /\ market_cap_lower = 0
    /\ main_source = <<>>
    /\ sub_source = <<>>
    /\ subplot = [title |-> <<>>, source |-> <<>>]
    /\ slider = [end |-> 0, value |-> 0]
    /\ btn = [label |-> "Play"]
    /\ callback = None
    /\ periodic = {}
    /\ selected = <<>>
    /\ map_event = [name |-> "none", indices |-> <<>>, value |-> 0]
    /\ tick_years = <<>>
    /\ map_err = "none"

(***************************************************************************)
(* Startup and the callbacks                                               *)
(***************************************************************************)
\* the name of the one data source every scatter plot is drawn from
SourceName == "p_pca_source"

\* the module runs to its end only if both initial plots can be drawn
StartupOK(t) ==
    /\ plot_pca(SourceName, t, "Market Cap").err = "none"
    /\ draw_subplot(t, "Mean Recommendation", <<>>).err = "none"

\* df['label'] = pca_ft_selected
InitLabel(t, ft) == SetColumnConst(t, "label", S(ft))

Init ==
    /\ df \in {InitLabel(t, "Market Cap") : t \in {u \in Tables : StartupOK(u)}}
    /\ pca_ft_selected = "Market Cap"
    /\ sub_ft_selected = "Mean Recommendation"
    /\ points_selected = <<>>
    /\ p_pca_source = [name |-> SourceName, data |-> df.data]
    /\ layout = [p_pca |-> plot_pca(SourceName, df, "Market Cap").fig,
                 p_sub |-> draw_subplot(df, "Mean Recommendation", <<>>).fig]
    \* p_pca.renderers[0].data_source.selected.on_change('indices', lasso_update)
    /\ lasso_listener = layout.p_pca.source
    /\ pipeline_runs = 1
    /\ steps = 0
    /\ event = [name |-> "startup", feature |-> "", indices |-> <<>>]
    /\ err = "none"
    /\ ClusterIdle
    /\ MapIdle

\* values a Select widget can be set to: the columns and an unknown name
FeatureNames == DOMAIN df.data \cup {"NoSuchColumn"}

\* lasso selections: every sequence of distinct valid row positions, in any
\* order
Selections ==
    {q \in UNION {[1..n -> 0..(NumRows(df) - 1)] : n \in 0..NumRows(df)} :
        \A i, j \in DOMAIN q : i # j => q[i] # q[j]}

\* p_pca_source.data['label'] = df[new]
\* SetLabel with a fault: the values written under the wrong column name
SetLabelWrongColumn(source, cells) == [source EXCEPT !.data["Cluster"] = cells]

SetLabel(source, cells) == [source EXCEPT !.data["label"] = cells]

\* update_pca_col with a fault: the name stored in the subplot's global too
update_pca_col_both(new) ==
    /\ new # pca_ft_selected
    /\ steps < MaxEvents
    /\ steps' = steps + 1
    /\ pca_ft_selected' = new
    /\ sub_ft_selected' = new
    /\ event' = [name |-> "update_pca_col", feature |-> new, indices |-> <<>>]
    /\ IF ~HasColumn(df, new)
       THEN /\ err' = "KeyError"
            /\ UNCHANGED <<p_pca_source, layout>>
       ELSE LET r == plot_pca(SourceName, df, new)
            IN  /\ p_pca_source' = [p_pca_source EXCEPT !.data["label"] = df.data[new]]
                /\ err' = r.err
                /\ layout' = IF r.err = "none"
                             THEN [layout EXCEPT !.p_pca = r.fig]
                             ELSE layout
    /\ UNCHANGED <<df, points_selected, pipeline_runs>>

\* update_pca_col with a fault: the new plot drawn from a data source of its
\* own
update_pca_col_new_source(new) ==
    /\ new # pca_ft_selected
    /\ pca_ft_selected' = new
    /\ steps < MaxEvents
    /\ steps' = steps + 1
    /\ event' = [name |-> "update_pca_col", feature |-> new, indices |-> <<>>]
    /\ IF ~HasColumn(df, new)
       THEN /\ err' = "KeyError"
            /\ UNCHANGED <<p_pca_source, layout>>
       ELSE LET r == plot_pca("new_source", df, new)
            IN  /\ p_pca_source' = [p_pca_source EXCEPT !.data["label"] = df.data[new]]
                /\ err' = r.err
                /\ layout' = IF r.err = "none"
                             THEN [layout EXCEPT !.p_pca = r.fig]
                             ELSE layout
    /\ UNCHANGED <<df, sub_ft_selected, points_selected, pipeline_runs>>

update_pca_col(new) ==
    /\ new # pca_ft_selected
    /\ pca_ft_selected' = new
    /\ steps < MaxEvents
    /\ steps' = steps + 1
    /\ event' = [name |-> "update_pca_col", feature |-> new, indices |-> <<>>]
    /\ IF ~HasColumn(df, new)
       THEN /\ err' = "KeyError"
            /\ UNCHANGED <<p_pca_source, layout>>
       ELSE LET r == plot_pca(SourceName, df, new)
            IN  /\ p_pca_source' = SetLabel(p_pca_source, df.data[new])
                /\ err' = r.err
                /\ layout' = IF r.err = "none"
                             THEN [layout EXCEPT !.p_pca = r.fig]
                             ELSE layout
    /\ UNCHANGED <<df, sub_ft_selected, points_selected, pipeline_runs>>

\* update_sub_col with a fault: the subplot redrawn with the initial, empty
\* selection
update_sub_col_reset(new) ==
    /\ new # sub_ft_selected
    /\ steps < MaxEvents
    /\ steps' = steps + 1
    /\ sub_ft_selected' = new
    /\ points_selected' = <<>>
    /\ event' = [name |-> "update_sub_col", feature |-> new, indices |-> <<>>]
    /\ LET r == draw_subplot(df, new, <<>>)
       IN  /\ err' = r.err
           /\ layout' = IF r.err = "none"
                        THEN [layout EXCEPT !.p_sub = r.fig]
                        ELSE layout
    /\ UNCHANGED <<df, pca_ft_selected, p_pca_source, pipeline_runs>>

update_sub_col(new) ==
    /\ new # sub_ft_selected
    /\ sub_ft_selected' = new
    /\ steps < MaxEvents
    /\ steps' = steps + 1
    /\ event' = [name |-> "update_sub_col", feature |-> new, indices |-> <<>>]
    /\ LET r == draw_subplot(df, new, points_selected)
       IN  /\ err' = r.err
           /\ layout' = IF r.err = "none"
                        THEN [layout EXCEPT !.p_sub = r.fig]
                        ELSE layout
    /\ UNCHANGED <<df, pca_ft_selected, points_selected, p_pca_source,
                   pipeline_runs>>

\* lasso_update with a fault: the new indices added to the previous selection
lasso_update_extend(new) ==
    /\ new # points_selected
    /\ steps < MaxEvents
    /\ steps' = steps + 1
    /\ points_selected' = points_selected \o new
    /\ event' = [name |-> "lasso_update", feature |-> "", indices |-> new]
    /\ LET r == draw_subplot(df, sub_ft_selected, points_selected \o new)
       IN  /\ err' = r.err
           /\ layout' = IF r.err = "none"
                        THEN [layout EXCEPT !.p_sub = r.fig]
                        ELSE layout
    /\ UNCHANGED <<df, pca_ft_selected, sub_ft_selected, p_pca_source,
                   pipeline_runs>>

lasso_update(new) ==
    /\ new # points_selected
    /\ points_selected' = new
    /\ steps < MaxEvents
    /\ steps' = steps + 1
    /\ event' = [name |-> "lasso_update", feature |-> "", indices |-> new]
    /\ LET r == draw_subplot(df, sub_ft_selected, new)
       IN  /\ err' = r.err
           /\ layout' = IF r.err = "none"
                        THEN [layout EXCEPT !.p_sub = r.fig]
                        ELSE layout
    /\ UNCHANGED <<df, pca_ft_selected, sub_ft_selected, p_pca_source,
                   pipeline_runs>>

\* a change of a Select widget's value calls the callback registered on it
SetColorFeature ==
    /\ \E new \in FeatureNames : update_pca_col(new)
    /\ UNCHANGED <<lasso_listener, clusterVars, mapVars>>

SetSubplotFeature ==
    /\ \E new \in FeatureNames : update_sub_col(new)
    /\ UNCHANGED <<lasso_listener, clusterVars, mapVars>>

\* the lasso tool of the scatter plot in the layout changes the selection of
\* the data source that plot draws from; lasso_update runs if it is
\* registered on that data source
SetSelection ==
    /\ layout.p_pca.source = lasso_listener
    /\ \E new \in Selections : lasso_update(new)
    /\ UNCHANGED <<lasso_listener, clusterVars, mapVars>>

Next ==
    \/ SetColorFeature
    \/ SetSubplotFeature
    \/ SetSelection

Spec == Init /\ [][Next]_vars

(***************************************************************************)
(* clustering() called again and again on one projection, with other code  *)
(* drawing from the global generator in between                            *)
(***************************************************************************)
\* the explorer's state while only clustering() is looked at
PcaIdle ==
    /\ df = TableA
    /\ pca_ft_selected = "Market Cap"
    /\ sub_ft_selected = "Mean Recommendation"
    /\ points_selected = <<>>
    /\ p_pca_source = [name |-> SourceName, data |-> df.data]
    /\ layout = [p_pca |-> NoFigure, p_sub |-> NoFigure]
    /\ lasso_listener = SourceName
    /\ pipeline_runs = 0
    /\ steps = 0
    /\ event = [name |-> "none", feature |-> "", indices |-> <<>>]
    /\ err = "none"

InitCluster ==
    /\ cl_df \in Projections
    /\ np_random \in RandomStates
    /\ cl_first = [k \in ClusterCounts(cl_df) |-> NoLabels]
    /\ cl_event = [name |-> "none", n_clusters |-> 0, random_before |-> 0,
                   repeat |-> FALSE]
    /\ cl_err = "none"
    /\ PcaIdle
    /\ MapIdle

\* any other code that draws a random number
RandomDraw ==
    /\ np_random' = RandomStep(np_random)
    /\ cl_event' = [name |-> "draw", n_clusters |-> 0,
                    random_before |-> np_random, repeat |-> FALSE]
    /\ cl_err' = "none"
    /\ UNCHANGED <<cl_df, cl_first, pcaVars, mapVars>>

RunClustering ==
    /\ \E n_clusters \in ClusterCounts(cl_df) : clustering(n_clusters)
    /\ UNCHANGED <<pcaVars, mapVars>>

NextCluster ==
    \/ RandomDraw
    \/ RunClustering

SpecCluster == InitCluster /\ [][NextCluster]_vars

(***************************************************************************)
(* The company map: what the user and the document's timer do              *)
(***************************************************************************)
InitMap ==
    /\ MapStartup
    /\ PcaIdle
    /\ ClusterIdle

\* the latest ticks' years, as many as there are years in the range
LastTicks(q) ==
    IF Len(q) > Cardinality(Years) THEN Tail(q) ELSE q

\* a tap on a city circle selects its row, a tap elsewhere selects nothing
Tap ==
    /\ \E new \in {<<>>} \cup {<<i>> : i \in 0..(Len(main_source) - 1)} :
          tap_update(new)
    /\ UNCHANGED <<tick_years, pcaVars, clusterVars>>

Slide ==
    /\ \E new \in SliderValues : slider_update(new)
    /\ UNCHANGED <<tick_years, pcaVars, clusterVars>>

Click ==
    /\ play
    /\ UNCHANGED <<tick_years, pcaVars, clusterVars>>

\* the document runs a registered periodic callback; an exception in it is
\* logged and the callback stays registered
Tick ==
    /\ periodic # {}
    /\ update_year
    /\ tick_years' = LastTicks(Append(tick_years, year'))
    /\ UNCHANGED <<pcaVars, clusterVars>>

NextMap ==
    \/ Tap
    \/ Slide
    \/ Click
    \/ Tick

SpecMap == InitMap /\ [][NextMap]_vars

C2_InvalidNameLeavesState ==
    [][(/\ event'.name \in {"update_pca_col", "update_sub_col"}
        /\ ~HasColumn(df, event'.feature)) =>
          /\ err' # "none"
          /\ pca_ft_selected' = pca_ft_selected
          /\ sub_ft_selected' = sub_ft_selected
          /\ points_selected' = points_selected
          /\ p_pca_source'.data["label"] = p_pca_source.data["label"]]_vars

C4_ColorFeatureReplacesOnlyScatter ==
    [][(event'.name = "update_pca_col" /\ HasColumn(df, event'.feature)) =>
          /\ pca_ft_selected' = event'.feature
          /\ sub_ft_selected' = sub_ft_selected
          /\ points_selected' = points_selected
          /\ layout'.p_sub = layout.p_sub
          /\ err' = "none" =>
                /\ layout'.p_pca.title = event'.feature
                /\ layout'.p_pca.fill_color.field = event'.feature]_vars

C4_Witness ==
    /\ event.name = "update_pca_col"
    /\ err = "none"
    /\ pca_ft_selected = "Cluster"
    /\ layout.p_pca.title = "Cluster"
    /\ points_selected # <<>>
    /\ layout.p_sub.rows = points_selected

\* C5: in every state, the startup state included, the 'label' column of the
\* scatter plot's data source holds the values of the column named by
\* color_feature, row by row.
C5_LabelMirrorsColorFeature ==
    /\ HasColumn(df, pca_ft_selected)
    /\ p_pca_source.data["label"] = df.data[pca_ft_selected]

\* C6: no event reruns the pipeline or changes a column of the enriched
\* table; in the data source only the 'label' column may change.
C6_OnlyLabelChanges ==
    [][/\ df' = df
       /\ pipeline_runs' = pipeline_runs
       /\ DOMAIN p_pca_source'.data = DOMAIN p_pca_source.data
       /\ \A c \in DOMAIN p_pca_source.data \ {"label"} :
             p_pca_source'.data[c] = p_pca_source.data[c]]_vars

C6_Witness ==
    /\ event.name = "update_pca_col"
    /\ err = "none"
    /\ pipeline_runs = 1
    /\ p_pca_source.data["label"] # df.data["label"]
    /\ p_pca_source.data["label"] = df.data["Cluster"]
    /\ \A c \in DOMAIN df.data \ {"label"} : p_pca_source.data[c] = df.data[c]

\* C7: for every column, numeric or categorical, a subplot drawn with an
\* empty selection is drawn without error and its 'selected' counts are all
\* zero.
C7_EmptySelectionDraws ==
    (/\ event.name \in {"update_sub_col", "lasso_update"}
     /\ HasColumn(df, sub_ft_selected)
     /\ points_selected = <<>>) =>
        /\ err = "none"
        /\ layout.p_sub.kind = "hist" =>
              \A b \in 1..NumBins : layout.p_sub.selected[b] = 0
        /\ layout.p_sub.kind = "bar" =>
              \A k \in 1..Len(layout.p_sub.x) :
                  layout.p_sub.label[k] = "selected" => layout.p_sub.counts[k] = 0

\* whether a value (in hundredths) lies in bin b of the histogram in the
\* layout: bins are closed on the left and open on the right, the last one
\* closed on both sides
InBin(v, b) ==
    /\ layout.p_sub.left[b] <= v
    /\ IF b = NumBins THEN v <= layout.p_sub.right[b]
       ELSE v < layout.p_sub.right[b]

\* C8: a histogram has 50 bins whose edges span the values of all rows, and
\* in every bin the 'selected' count is the number of selected rows whose
\* value lies in that bin, as the 'all' count is the number of all rows
\* whose value lies in it.
C8_SelectedHistogramSharesBins ==
    layout.p_sub.kind = "hist" =>
        LET f == layout.p_sub
            cells == df.data[f.title]
        IN  /\ Len(f.all) = 50 /\ Len(f.selected) = 50
            /\ Len(f.left) = 50 /\ Len(f.right) = 50
            /\ \A i \in 1..Len(cells) :
                  /\ f.left[1] <= 100 * cells[i].n
                  /\ 100 * cells[i].n <= f.right[NumBins]
            /\ \A b \in 1..(NumBins - 1) : f.right[b] = f.left[b + 1]
            /\ \A b \in 1..NumBins :
                  /\ f.left[b] < f.right[b]
                  /\ f.all[b] = Cardinality({i \in 1..Len(cells) :
                                                InBin(100 * cells[i].n, b)})
                  /\ f.selected[b] =
                        Cardinality({k \in 1..Len(f.rows) :
                                        InBin(100 * cells[f.rows[k] + 1].n, b)})

C8_Witness ==
    /\ layout.p_sub.kind = "hist"
    /\ err = "none"
    /\ Len(layout.p_sub.rows) = 2
    /\ layout.p_sub.selected[NumBins] = 1
    /\ \E b \in 1..(NumBins - 1) : layout.p_sub.selected[b] = 1
    /\ SeqSum(layout.p_sub.all) = NumRows(df)

\* C9: a bar chart lists the same categories for 'selected' as for 'all',
\* and the 'selected' count of a category is the number of selected rows
\* with that value (0 when there is none).
C9_SelectedCountsPerCategory ==
    layout.p_sub.kind = "bar" =>
        LET f == layout.p_sub
            n == Len(f.x) \div 2
            cells == df.data[f.title]
        IN  /\ \A k \in 1..n : f.x[n + k] = f.x[k]
            /\ {f.x[k] : k \in 1..n} = {cells[i].s : i \in 1..Len(cells)}
            /\ \A k \in 1..n :
                  f.counts[n + k] =
                      Cardinality({j \in 1..Len(f.rows) :
                                      cells[f.rows[j] + 1].s = f.x[k]})

\* C10: in a bar chart every category's bar has the color that the scatter
\* plot's color map for the same feature gives to that category.
C10_BarColorsMatchScatter ==
    layout.p_sub.kind = "bar" =>
        LET f == layout.p_sub
            scatter == plot_pca(SourceName, df, f.title)
        IN  /\ scatter.err = "none"
            /\ scatter.fig.fill_color.type = "factor"
            /\ \A k \in 1..Len(f.x) :
                  f.color[k] = MapperColor(scatter.fig.fill_color, f.x[k])

C10_Witness ==
    /\ layout.p_sub.kind = "bar"
    /\ err = "none"
    /\ StrRank(layout.p_sub.x[1]) > StrRank(layout.p_sub.x[2])
    /\ layout.p_sub.color[1] = White
    /\ layout.p_sub.color[2] = Black

\* whether every value of a column is a number that is not negative
AllNonNegative(cells) ==
    \A i \in 1..Len(cells) : cells[i].kind = "num" /\ cells[i].n >= 0

\* the smallest and the largest number of a column
IsMinOf(cell, cells) ==
    /\ cell.kind = "num"
    /\ \E i \in 1..Len(cells) : cells[i] = cell
    /\ \A i \in 1..Len(cells) : cells[i].kind = "num" => cell.n <= cells[i].n

IsMaxOf(cell, cells) ==
    /\ cell.kind = "num"
    /\ \E i \in 1..Len(cells) : cells[i] = cell
    /\ \A i \in 1..Len(cells) : cells[i].kind = "num" => cell.n >= cells[i].n

\* C11: when a categorical column with k distinct values becomes the color
\* feature, the color map is built without error: its factors are the k
\* values in sorted order, its palette has k colors, and the
\* category-to-color dictionary has k entries, each a full color (a '#'
\* and six digits).
C11_OneColorPerCategory ==
    (/\ event.name = "update_pca_col"
     /\ HasColumn(df, pca_ft_selected)
     /\ is_object_dtype(df, pca_ft_selected)) =>
        LET cm == create_cmap(df, pca_ft_selected)
            l == Unique(df.data[pca_ft_selected])
        IN  /\ err = "none"
            /\ cm.err = "none"
            /\ cm.mapper.factors = l
            /\ Len(cm.mapper.palette) = Len(l)
            /\ DOMAIN cm.cat_palette.d = SeqRange(l)
            /\ \A c \in SeqRange(l) :
                  /\ Len(cm.cat_palette.d[c]) = 7
                  /\ cm.cat_palette.d[c][1] = "#"
                  /\ cm.cat_palette.d[c] = MapperColor(cm.mapper, c)

\* C12: the scatter plot of a numeric color feature has a continuous color
\* scale from the column's minimum to its maximum, logarithmic exactly when
\* every value is non-negative and linear otherwise, a color bar of that
\* same scale, and no discrete legend entry.
C12_NumericColorScale ==
    (/\ layout.p_pca.kind = "scatter"
     /\ is_numeric_dtype(df, layout.p_pca.title)) =>
        LET f == layout.p_pca
            cells == df.data[f.title]
        IN  /\ f.fill_color.type =
                  IF AllNonNegative(cells) THEN "log" ELSE "linear"
            /\ IsMinOf(f.fill_color.low, cells)
            /\ IsMaxOf(f.fill_color.high, cells)
            /\ f.color_bar.shown
            /\ f.color_bar.type = f.fill_color.type
            /\ f.color_bar.low = f.fill_color.low
            /\ f.color_bar.high = f.fill_color.high
            /\ f.legend = "empty"

HistWithinAll(f, cells) ==
    /\ \A b \in 1..NumBins : f.selected[b] <= f.all[b]
    /\ SeqSum(f.selected) =
          Cardinality({k \in 1..Len(f.rows) : cells[f.rows[k] + 1].kind = "num"})

\* C19: in a histogram drawn for a selection without duplicates the
\* 'selected' count of every bin is at most the 'all' count of that bin, and
\* the 'selected' counts add up to the number of selected rows that have a
\* value.
C19_SelectedWithinAll ==
    /\ layout.p_sub.kind = "hist" =>
          HistWithinAll(layout.p_sub, df.data[layout.p_sub.title])
    /\ event.name = "startup" =>
          \A col \in {c \in DOMAIN df.data : is_numeric_dtype(df, c)} :
             \A sel \in Selections :
                LET r == draw_hist(df, col, sel)
                IN  r.err = "none" => HistWithinAll(r.fig, df.data[col])

C19_Witness ==
    /\ layout.p_sub.kind = "hist"
    /\ err = "none"
    /\ Len(layout.p_sub.rows) = 2
    /\ SeqSum(layout.p_sub.selected) = 2
    /\ \E b \in 2..(NumBins - 1) :
          layout.p_sub.selected[b] = 1 /\ layout.p_sub.all[b] = 1

\* two label vectors that differ by a renaming of the labels at most
SameUpToRenaming(a, b) ==
    /\ Len(a) = Len(b)
    /\ \A i, j \in 1..Len(a) : (a[i] = a[j]) <=> (b[i] = b[j])

\* the 'Cluster' column as label numbers
ClusterColumn(t) == [i \in 1..NumRows(t) |-> t.data["Cluster"][i].s]

\* C13: every successful run of clustering on a projection gives each row
\* the label that the first run with the same n_clusters gave it, up to a
\* renaming of the labels, whatever the state of the random generator was
\* when the run began.
C13_SameLabelsEveryRun ==
    (cl_event.name = "clustering" /\ cl_err = "none") =>
        /\ HasColumn(cl_df, "Cluster")
        /\ SameUpToRenaming(ClusterColumn(cl_df),
                            [i \in 1..NumRows(cl_df) |->
                                LabelStr(cl_first[cl_event.n_clusters][i])])

\* a repeated run that began in a generator state from which an unseeded
\* fit gives another partition
C13_Witness ==
    /\ cl_event.name = "clustering"
    /\ cl_err = "none"
    /\ cl_event.repeat
    /\ cl_event.n_clusters = 2
    /\ cl_event.random_before # seed(0)
    /\ ~SameUpToRenaming(
           fit_predict(ProjectionOf(cl_df), 2, cl_event.random_before).labels,
           cl_first[2])
    /\ SameUpToRenaming(ClusterColumn(cl_df),
                        [i \in 1..NumRows(cl_df) |-> LabelStr(cl_first[2][i])])

\* whether n_clusters is outside 1 .. number of rows
InvalidClusterCount(t, n_clusters) == n_clusters < 1 \/ n_clusters > NumRows(t)

C15_TickAllOrNothing ==
    [][map_event'.name = "update_year" =>
          \/ /\ map_err' = "none"
             /\ year' = (IF year >= LastYear THEN FirstYear ELSE year + 1)
             /\ slider'.end =
                   MaxMarketCap(create_df(year', city', market_cap_lower', TRUE))
             /\ main_source' = create_df(year', city', market_cap_lower', TRUE)
             /\ sub_source' = create_df(year', city', market_cap_lower', FALSE)
          \/ /\ map_err' # "none"
             /\ year' = year
             /\ main_source' = main_source
             /\ sub_source' = sub_source]_vars

\* C16: the main and the detail data source always hold the rows that
\* create_df derives from the raw table for the current year, city and
\* market_cap_lower, however many ticks ran before.
C16_SourcesFollowState ==
    /\ main_source = create_df(year, city, market_cap_lower, TRUE)
    /\ sub_source = create_df(year, city, market_cap_lower, FALSE)

\* C17: a tap that selects a city makes it the current city, gives the
\* data source of the subplot's glyphs that city's companies for the
\* current year and market-cap bound and the subplot a title that names the
\* city, and leaves year and market_cap_lower as they were.
C17_TapShowsCity ==
    [][(map_event'.name = "tap_update" /\ map_event'.indices # <<>>) =>
          /\ city' = main_source[map_event'.indices[1] + 1].City.s
          /\ subplot'.source = create_df(year', city', market_cap_lower', FALSE)
          /\ subplot'.title = SubplotTitle(city')
          /\ year' = year
          /\ market_cap_lower' = market_cap_lower]_vars

\* C20: at most one periodic callback is registered at any time, one is
\* registered exactly when the button's label is 'Pause', and a click while
\* 'Pause' removes the callback that the click before it added.
C20_OneCallbackWhilePause ==
    /\ [](/\ Cardinality(periodic) <= 1
          /\ (periodic # {}) <=> (btn.label = "Pause")
          /\ btn.label = "Pause" => periodic = {callback})
    /\ [][(map_event'.name = "play" /\ btn.label = "Pause" /\ btn' # btn) =>
             /\ callback \in periodic
             /\ periodic' = periodic \ {callback}
             /\ periodic' = {}]_vars

C20_Witness ==
    /\ map_event.name = "play"
    /\ btn.label = "Play"
    /\ callback # None
    /\ periodic = {}
    /\ year # LastYear

\* C21: the current year is always one of 2018..2022; a tick moves it to the
\* next year and from 2022 to 2018, so any five ticks in a row visit every
\* year of the range.
C21_YearCycles ==
    /\ [](/\ year \in Years
          /\ Len(tick_years) = Cardinality(Years) =>
                SeqRange(tick_years) = Years)
    /\ [][map_event'.name = "update_year" =>
             /\ year = LastYear => year' = FirstYear
             /\ year # LastYear => year' = year + 1]_vars

C21_Witness ==
    /\ map_event.name = "update_year"
    /\ Len(tick_years) = Cardinality(Years)
    /\ tick_years[1] = FirstYear
    /\ year = LastYear
    /\ SeqRange(tick_years) = Years

====
